---- MODULE Spec2Model ----
(***************************************************************************)
(* Model of the screenshot MCP server (src/server.py): the four tools of   *)
(* ScreenshotServer, the dispatch in call_tool, the capture utility as an  *)
(* external process and the Screenshot Directory as external state.        *)
(*                                                                         *)
(* Strings the code takes apart (file names, paths) are sequences of       *)
(* tokens: "/" and "." are the characters pathlib looks at, every other    *)
(* token stands for a run of ordinary characters.  Strings the code only   *)
(* copies (error-stream text, exception texts, tool names) are TLA+        *)
(* strings.                                                                *)
(*                                                                         *)
(* What lies outside src/server.py is modelled by its contract:            *)
(*   - TextContent(text=...) builds the text content it is given (the mcp  *)
(*     package is not part of the repository);                             *)
(*   - subprocess.run(..., text=True) hands over the child's exit status   *)
(*     and its error stream as text, or raises when the child cannot be    *)
(*     started;                                                            *)
(*   - the operating system enumerates an unchanged directory in the same  *)
(*     order every time (EnumOrder).                                       *)
(***************************************************************************)
EXTENDS Integers, Sequences, FiniteSets, TLC

(* ------------------------------ bounds -------------------------------- *)

\* longest file name a caller supplies, in tokens
MaxLen == 2
\* largest delay a caller supplies
MaxDelay == 1
\* largest limit a caller supplies
MaxLimit == 2
\* modification times are 1..MaxMtime
MaxMtime == 3
\* external changes of the directory that fall inside one listing call
MaxRaces == 1

(* -------------------------- program constants ------------------------- *)

\* default of the "limit" argument
DefaultLimit == 10
\* default of the "delay" argument
DefaultDelay == 0
\* bytes per KB in the size shown
BytesPerKB == 1024

\* SCREENSHOT_DIR = Path.home() / "Desktop" / "mcp-screenshots", as str()
SCREENSHOT_DIR == <<"/", "~home", "/", "Desktop", "/", "mcp-screenshots">>

\* the four tools call_tool dispatches, and one name it does not know
KnownTools == {"screenshot", "screenshot_window", "screenshot_area", "list_screenshots"}
OtherTools == {"record_screen"}
ToolNames == KnownTools \cup OtherTools

(* ------------------------- argument values ---------------------------- *)

\* a JSON value of an argument set: absent key, null, string, integer
Absent == [t |-> "absent", s |-> <<>>, n |-> 0]
Null == [t |-> "null", s |-> <<>>, n |-> 0]
StrV(s) == [t |-> "str", s |-> s, n |-> 0]
IntV(n) == [t |-> "int", s |-> <<>>, n |-> n]

\* the characters a supplied file name is made of
Chars == {"a", ".", "/"}

RECURSIVE SeqsUpTo(_, _)
SeqsUpTo(S, n) ==
    IF n = 0 THEN {<<>>}
    ELSE LET shorter == SeqsUpTo(S, n - 1)
         IN  shorter \cup {Append(s, c) : s \in {x \in shorter : Len(x) = n - 1}, c \in S}

FileNames == SeqsUpTo(Chars, MaxLen)

\* what a caller may send as "filename": nothing, a string, or an integer
FilenameArgs == {Absent, IntV(5)} \cup {StrV(s) : s \in FileNames}
\* what a caller may send as "delay"
DelayArgs == {Absent, StrV(<<"a">>), IntV(0), IntV(MaxDelay)}
\* what a caller may send as "limit"
LimitArgs == {Absent, Null, StrV(<<"a">>)} \cup {IntV(n) : n \in -1..MaxLimit}

\* dict.get(key, default): the default only when the key is absent
Get(v, default) == IF v.t = "absent" THEN default ELSE v

\* dict.get(key): None when the key is absent
GetOrNone(v) == Get(v, Null)

\* Python's truth value of an argument value
Truthy(v) ==
    CASE v.t = "str" -> v.s # <<>>
      [] v.t = "int" -> v.n # 0
      [] OTHER -> FALSE

(* ------------------------------ pathlib ------------------------------- *)

\* the pieces of s between "/" tokens, empty pieces included
RECURSIVE SplitSlash(_)
SplitSlash(s) ==
    IF s = <<>> THEN << <<>> >>
    ELSE LET rest == SplitSlash(Tail(s))
         IN  IF Head(s) = "/" THEN << <<>> >> \o rest
             ELSE << <<Head(s)>> \o Head(rest) >> \o Tail(rest)

\* number of leading "/" tokens
RECURSIVE LeadingSlashes(_)
LeadingSlashes(s) ==
    IF s # <<>> /\ Head(s) = "/" THEN 1 + LeadingSlashes(Tail(s)) ELSE 0

\* PurePosixPath's root: "//" for exactly two leading slashes, else "/" or none
PathRoot(s) ==
    LET k == LeadingSlashes(s)
    IN  IF k = 0 THEN <<>> ELSE IF k = 2 THEN <<"/", "/">> ELSE <<"/">>

\* PurePosixPath's parts after the root: empty and "." components are dropped
PathParts(s) == SelectSeq(SplitSlash(s), LAMBDA p : p # <<>> /\ p # <<".">>)

\* the parts joined by "/"
RECURSIVE JoinSlash(_)
JoinSlash(parts) ==
    IF parts = <<>> THEN <<>>
    ELSE IF Len(parts) = 1 THEN Head(parts)
    ELSE Head(parts) \o <<"/">> \o JoinSlash(Tail(parts))

\* str(base / name) for a str name: an absolute name replaces the base
PathJoinStr(base, name) ==
    IF PathRoot(name) # <<>>
    THEN PathRoot(name) \o JoinSlash(PathParts(name))
    ELSE PathRoot(base) \o JoinSlash(PathParts(base) \o PathParts(name))


\* the name a handler generates: f"{prefix}{timestamp}.png"; the clock's
\* reading is one token
DefaultName(prefix) == <<prefix, "<timestamp>", ".png">>

\* filename = args.get("filename"); if not filename: filename = generated
ResolveFilename(v, prefix) ==
    IF Truthy(GetOrNone(v)) THEN GetOrNone(v) ELSE StrV(DefaultName(prefix))

\* SCREENSHOT_DIR / filename: only a str joins, anything else is a TypeError
CanJoin(name) == name.t = "str"

\* s without its leading "." tokens
RECURSIVE StripDots(_)
StripDots(s) == IF s # <<>> /\ Head(s) = "." THEN StripDots(Tail(s)) ELSE s

\* the path of a handler that cleans the supplied name before joining it
FilePathCleaned(name) == PathJoinStr(SCREENSHOT_DIR, StripDots(name.s))

\* str(SCREENSHOT_DIR / filename)
FilePath(name) == PathJoinStr(SCREENSHOT_DIR, name.s)

\* delay > 0 raises TypeError unless delay is a number
CanCompare(delay) == delay.t = "int"

\* cmd = ["screencapture"] (+ ["-T", str(delay)] if delay > 0) + [str(filepath)]
FullCmd(delay, path) ==
    IF delay.n > 0
    THEN << <<"screencapture">>, <<"-T">>, <<ToString(delay.n)>>, path >>
    ELSE << <<"screencapture">>, path >>

\* cmd = ["screencapture", "-W", str(filepath)]
WindowCmd(path) == << <<"screencapture">>, <<"-W">>, path >>

\* cmd = ["screencapture", "-s", str(filepath)]
AreaCmd(path) == << <<"screencapture">>, <<"-s">>, path >>

(* ------------------------------ results ------------------------------- *)

\* a text result; kind stands for the fixed words of the message, the other
\* fields for what the f-string puts into it
Res(kind, path, text, kb, entries) ==
    [kind |-> kind, path |-> path, text |-> text, kb |-> kb, entries |-> entries]

NoResult == Res("none", <<>>, "", 0, <<>>)

\* "Screenshot saved successfully\nFile: {filepath}\nSize: {file_size:.1f} KB"
SavedResult(path, kb) == Res("saved", path, "", kb, <<>>)
\* "Error: Failed to capture screenshot\n{result.stderr}"
CaptureFailedResult(stderr) == Res("capture_failed", <<>>, stderr, 0, <<>>)
\* "Error: {str(e)}"
ErrorResult(e) == Res("error", <<>>, e, 0, <<>>)
\* "Click on a window to capture screenshot...\n(Will be saved to: {filepath})"
WindowAck(path) == Res("window_ack", path, "", 0, <<>>)
\* "Drag to select an area to capture...\n(Will be saved to: {filepath})"
AreaAck(path) == Res("area_ack", path, "", 0, <<>>)
\* "No screenshots found"
NoneFoundResult == Res("none_found", <<>>, "", 0, <<>>)
\* "Recent screenshots:" and one line per entry
ListingResult(entries) == Res("listing", <<>>, "", 0, entries)
\* "Unknown tool: {name}"
UnknownToolResult(name) == Res("unknown_tool", <<>>, name, 0, <<>>)

\* the result kinds that are error results (their text starts "Error:")
ErrorKinds == {"capture_failed", "error"}

\* f"{bytes / 1024:.1f}": tenths of a KB, rounded half to even
SizeTenths(bytes) ==
    LET q == (bytes * 10) \div BytesPerKB
        r == (bytes * 10) % BytesPerKB
    IN  IF 2 * r > BytesPerKB \/ (2 * r = BytesPerKB /\ q % 2 = 1) THEN q + 1 ELSE q

\* the exceptions the handlers meet, as str(e)
TypeErrorJoin == "unsupported operand type(s) for /"
TypeErrorCompare == "'>' not supported"
TypeErrorSlice == "slice indices must be integers or None"
FileNotFoundUtility == "No such file or directory: 'screencapture'"
FileNotFoundStat == "No such file or directory"

(* --------------------------- the directory ---------------------------- *)

\* names of the files the Screenshot Directory may hold
Names == { <<"a", ".png">>, <<"b", ".png">>, <<"c", ".png">>, <<"notes", ".txt">> }

\* the order in which the operating system enumerates the directory
EnumOrder == << <<"b", ".png">>, <<"notes", ".txt">>, <<"c", ".png">>, <<"a", ".png">> >>

\* sizes in bytes of the files external processes write
FileSizes == {2048}

NoFile == [present |-> FALSE, mtime |-> 0, size |-> 0]
File(m, sz) == [present |-> TRUE, mtime |-> m, size |-> sz]

\* fnmatch of the pattern "*.png"
MatchesPng(name) == name # <<>> /\ name[Len(name)] = ".png"

\* the modification times an external process gives a file; the time of a file
\* the pattern does not match is never read, so one value stands for all
MtimesOf(name) == IF MatchesPng(name) THEN 1..MaxMtime ELSE {1}

(* ------------------------------- state -------------------------------- *)

VARIABLES
    fs,          \* the Screenshot Directory: name -> file
    pc,          \* where the server is: idle, inside a handler, or done
    tool,        \* the name call_tool was dispatched with
    args,        \* arguments or {}
    filepath,    \* _take_*_screenshot: str(filepath)
    cmd,         \* the command line built
    proc,        \* subprocess.run's child: state, exit status, error stream
    target,      \* the file at filepath once the child has exited
    spawned,     \* subprocess.Popen's child: none, alive or exited
    screenshots, \* _list_screenshots: the list being built
    result,      \* the text result returned
    outcome,     \* how the call ended: none yet, returned, or raised
    launches,    \* launches of the capture utility by this call
    fsReads,     \* reads of the Screenshot Directory by this call
    race,        \* the external changes of the directory during this listing call
    prev         \* the listing call just before this one, while the directory is unchanged

vars == <<fs, pc, tool, args, filepath, cmd, proc, target, spawned, screenshots,
          result, outcome, launches, fsReads, race, prev>>

NoArgs == [filename |-> Absent, delay |-> Absent, limit |-> Absent]
NoProc == [state |-> "none", rc |-> 0, stderr |-> ""]
NoTarget == [exists |-> FALSE, size |-> 0]
NoPrev == [valid |-> FALSE, limit |-> Absent, result |-> NoResult]
NoRace == [n |-> 0, kind |-> "none"]

\* exit statuses and error-stream texts of the capture utility
ExitCodes == {0, 1}
Stderrs == {"", "screencapture: cannot write file"}
Targets == {NoTarget} \cup {[exists |-> TRUE, size |-> sz] : sz \in FileSizes}

Init ==
    /\ fs = [n \in Names |-> NoFile]
    /\ pc = "idle"
    /\ tool = ""
    /\ args = NoArgs
    /\ filepath = <<>>
    /\ cmd = <<>>
    /\ proc = NoProc
    /\ target = NoTarget
    /\ spawned = "none"
    /\ screenshots = <<>>
    /\ result = NoResult
    /\ outcome = "none"
    /\ launches = 0
    /\ fsReads = 0
    /\ race = NoRace
    /\ prev = NoPrev

\* a handler returns r
Return(r) ==
    /\ pc' = "done"
    /\ outcome' = "returned"
    /\ result' = r

\* an exception leaves the handler
Raise ==
    /\ pc' = "done"
    /\ outcome' = "raised"
    /\ result' = NoResult

(* ------------------------- capture_full ------------------------------- *)

\* the handler without its except clause: the exception leaves it
TakeScreenshotNoExcept(e) == Raise

\* except Exception as e: return [TextContent(text=f"Error: {str(e)}")]
TakeScreenshotExcept(e) == Return(ErrorResult(e))

\* _take_screenshot up to the point where subprocess.run waits for the child
TakeScreenshot(a) ==
    LET filename == ResolveFilename(a.filename, "screenshot_")
        delay == Get(a.delay, IntV(DefaultDelay))
    IN  /\ UNCHANGED <<fs, target, spawned, screenshots, fsReads, race>>
        /\ prev' = NoPrev
        /\ IF ~CanJoin(filename)
           THEN /\ TakeScreenshotExcept(TypeErrorJoin)
                /\ UNCHANGED <<filepath, cmd, proc, launches>>
           ELSE IF ~CanCompare(delay)
           THEN /\ TakeScreenshotExcept(TypeErrorCompare)
                /\ filepath' = FilePath(filename)
                /\ UNCHANGED <<cmd, proc, launches>>
           ELSE /\ filepath' = FilePath(filename)
                /\ cmd' = FullCmd(delay, FilePath(filename))
                /\ launches' = launches + 1
                /\ \/ /\ proc' = [state |-> "running", rc |-> 0, stderr |-> ""]
                      /\ pc' = "waiting"
                      /\ UNCHANGED <<result, outcome>>
                   \/ /\ TakeScreenshotExcept(FileNotFoundUtility)
                      /\ UNCHANGED proc

\* the capture utility exits: its status, its error stream, and what it left
\* at the target path
UtilityExit ==
    /\ pc = "waiting"
    /\ proc.state = "running"
    /\ \E rc \in ExitCodes, err \in Stderrs, t \in Targets :
          /\ proc' = [state |-> "exited", rc |-> rc, stderr |-> err]
          /\ target' = t
    /\ pc' = "resume"
    /\ UNCHANGED <<fs, tool, args, filepath, cmd, spawned, screenshots, result,
                   outcome, launches, fsReads, race, prev>>

\* the handler testing for the file instead of the exit status
TakeScreenshotResumeByFile ==
    /\ pc = "resume"
    /\ proc.state = "exited"
    /\ fsReads' = fsReads + 1
    /\ IF target.exists
       THEN Return(SavedResult(filepath, SizeTenths(target.size)))
       ELSE Return(CaptureFailedResult(proc.stderr))
    /\ UNCHANGED <<fs, tool, args, filepath, cmd, proc, target, spawned, screenshots,
                   launches, race, prev>>

\* the handler running the utility a second time after a failure
TakeScreenshotResumeRetry ==
    /\ pc = "resume"
    /\ proc.state = "exited"
    /\ IF proc.rc = 0
       THEN /\ fsReads' = fsReads + 1
            /\ UNCHANGED <<proc, launches>>
            /\ IF target.exists
               THEN Return(SavedResult(filepath, SizeTenths(target.size)))
               ELSE Return(ErrorResult(FileNotFoundStat))
       ELSE IF launches < 2
       THEN /\ launches' = launches + 1
            /\ proc' = [state |-> "running", rc |-> 0, stderr |-> ""]
            /\ pc' = "waiting"
            /\ UNCHANGED <<result, outcome, fsReads>>
       ELSE /\ Return(CaptureFailedResult(proc.stderr))
            /\ UNCHANGED <<fsReads, proc, launches>>
    /\ UNCHANGED <<fs, tool, args, filepath, cmd, target, spawned, screenshots,
                   race, prev>>

\* _take_screenshot after subprocess.run has returned
TakeScreenshotResume ==
    /\ pc = "resume"
    /\ proc.state = "exited"
    /\ IF proc.rc = 0
       THEN /\ fsReads' = fsReads + 1
            /\ IF target.exists
               THEN Return(SavedResult(filepath, SizeTenths(target.size)))
               ELSE TakeScreenshotExcept(FileNotFoundStat)
       ELSE /\ Return(CaptureFailedResult(proc.stderr))
            /\ UNCHANGED fsReads
    /\ UNCHANGED <<fs, tool, args, filepath, cmd, proc, target, spawned, screenshots,
                   launches, race, prev>>

(* -------------------- capture_window, capture_area -------------------- *)

\* except Exception as e: return [TextContent(text=f"Error: {str(e)}")]
WindowExcept(e) == Return(ErrorResult(e))

\* the handler running the utility with subprocess.run, which waits
TakeWindowScreenshotWaiting(a) ==
    LET filename == ResolveFilename(a.filename, "window_")
    IN  /\ UNCHANGED <<fs, target, spawned, screenshots, fsReads, race, result, outcome>>
        /\ prev' = NoPrev
        /\ filepath' = FilePath(filename)
        /\ cmd' = WindowCmd(FilePath(filename))
        /\ launches' = launches + 1
        /\ proc' = [state |-> "running", rc |-> 0, stderr |-> ""]
        /\ pc' = "waiting"

\* _take_window_screenshot
TakeWindowScreenshot(a) ==
    LET filename == ResolveFilename(a.filename, "window_")
    IN  /\ UNCHANGED <<fs, proc, target, screenshots, fsReads, race>>
        /\ prev' = NoPrev
        /\ IF ~CanJoin(filename)
           THEN /\ WindowExcept(TypeErrorJoin)
                /\ UNCHANGED <<filepath, cmd, spawned, launches>>
           ELSE /\ filepath' = FilePath(filename)
                /\ cmd' = WindowCmd(FilePath(filename))
                /\ launches' = launches + 1
                /\ \/ /\ spawned' = "alive"
                      /\ Return(WindowAck(FilePath(filename)))
                   \/ /\ WindowExcept(FileNotFoundUtility)
                      /\ UNCHANGED spawned

\* except Exception as e: return [TextContent(text=f"Error: {str(e)}")]
AreaExcept(e) == Return(ErrorResult(e))

\* _take_area_screenshot
TakeAreaScreenshot(a) ==
    LET filename == ResolveFilename(a.filename, "area_")
    IN  /\ UNCHANGED <<fs, proc, target, screenshots, fsReads, race>>
        /\ prev' = NoPrev
        /\ IF ~CanJoin(filename)
           THEN /\ AreaExcept(TypeErrorJoin)
                /\ UNCHANGED <<filepath, cmd, spawned, launches>>
           ELSE /\ filepath' = FilePath(filename)
                /\ cmd' = AreaCmd(FilePath(filename))
                /\ launches' = launches + 1
                /\ \/ /\ spawned' = "alive"
                      /\ Return(AreaAck(FilePath(filename)))
                   \/ /\ AreaExcept(FileNotFoundUtility)
                      /\ UNCHANGED spawned

\* the detached capture utility ends (the user selected or cancelled)
SpawnedExit ==
    /\ spawned = "alive"
    /\ spawned' = "exited"
    /\ UNCHANGED <<fs, pc, tool, args, filepath, cmd, proc, target, screenshots,
                   result, outcome, launches, fsReads, race, prev>>

(* --------------------------- list_captures ---------------------------- *)

\* SCREENSHOT_DIR.glob("*.png"), in the order the directory is enumerated
GlobPng(dir) == SelectSeq(EnumOrder, LAMBDA n : dir[n].present /\ MatchesPng(n))

\* whether x.stat() succeeds for every x of seq
AllStat(seq, dir) == \A i \in 1..Len(seq) : dir[seq[i]].present

\* the stat calls made on seq until one fails: k per entry
StatCalls(seq, dir, k) ==
    IF AllStat(seq, dir) THEN k * Len(seq)
    ELSE LET first == CHOOSE i \in 1..Len(seq) :
                          /\ ~dir[seq[i]].present
                          /\ \A j \in 1..(i - 1) : dir[seq[j]].present
         IN  k * (first - 1) + 1

\* the sort without reverse=True
RECURSIVE SortedByMtimeAsc(_, _)
SortedByMtimeAsc(seq, dir) ==
    IF seq = <<>> THEN <<>>
    ELSE LET front == SortedByMtimeAsc(SubSeq(seq, 1, Len(seq) - 1), dir)
             x == seq[Len(seq)]
         IN  SelectSeq(front, LAMBDA y : dir[y].mtime <= dir[x].mtime)
                 \o <<x>>
                 \o SelectSeq(front, LAMBDA y : dir[y].mtime > dir[x].mtime)

\* sorted(seq, key=lambda x: x.stat().st_mtime, reverse=True): the sort is
\* stable, so entries with equal mtime keep the order of seq
RECURSIVE SortedByMtimeDesc(_, _)
SortedByMtimeDesc(seq, dir) ==
    IF seq = <<>> THEN <<>>
    ELSE LET front == SortedByMtimeDesc(SubSeq(seq, 1, Len(seq) - 1), dir)
             x == seq[Len(seq)]
         IN  SelectSeq(front, LAMBDA y : dir[y].mtime >= dir[x].mtime)
                 \o <<x>>
                 \o SelectSeq(front, LAMBDA y : dir[y].mtime < dir[x].mtime)

\* [:limit] raises TypeError unless limit is an integer or None
CanSlice(limit) == limit.t \in {"int", "null"}

\* seq[:limit]: None keeps everything, a negative limit counts from the end
SliceTo(seq, limit) ==
    IF limit.t = "null" THEN seq
    ELSE IF limit.n >= 0
    THEN SubSeq(seq, 1, IF limit.n < Len(seq) THEN limit.n ELSE Len(seq))
    ELSE SubSeq(seq, 1, IF Len(seq) + limit.n > 0 THEN Len(seq) + limit.n ELSE 0)

\* one line of the listing: f"{i}. {name} ({size_kb:.1f} KB, {mtime})"
Entry(i, name, dir) ==
    [index |-> i, name |-> name, kb |-> SizeTenths(dir[name].size), mtime |-> dir[name].mtime]

\* except Exception as e: return [TextContent(text=f"Error: {str(e)}")]
ListExcept(e) == Return(ErrorResult(e))

\* _list_screenshots up to the end of glob's enumeration of the directory
ListScreenshots(a) ==
    /\ screenshots' = GlobPng(fs)
    /\ fsReads' = fsReads + 1
    /\ pc' = "sort"
    /\ UNCHANGED <<fs, filepath, cmd, proc, target, spawned, result, outcome,
                   launches, race, prev>>

\* the orders of seq that descend by mtime, entries of equal mtime in any order
DescendingOrders(seq, dir) ==
    {p \in [1..Len(seq) -> {seq[i] : i \in 1..Len(seq)}] :
        /\ \A i, j \in 1..Len(seq) : i # j => p[i] # p[j]
        /\ \A i, j \in 1..Len(seq) : i < j => dir[p[i]].mtime >= dir[p[j]].mtime}

\* the rest of _list_screenshots' first statement, with the sorted list given:
\* the stat of every entry for its key, [:limit], and the test for an empty list
ListSortWith(sorted) ==
    /\ pc = "sort"
    /\ fsReads' = fsReads + StatCalls(screenshots, fs, 1)
    /\ LET limit == Get(args.limit, IntV(DefaultLimit))
       IN  IF ~AllStat(screenshots, fs)
           THEN ListExcept(FileNotFoundStat) /\ UNCHANGED screenshots
           ELSE IF ~CanSlice(limit)
           THEN ListExcept(TypeErrorSlice) /\ UNCHANGED screenshots
           ELSE LET kept == SliceTo(sorted, limit)
                IN  /\ screenshots' = kept
                    /\ IF kept = <<>>
                       THEN Return(NoneFoundResult)
                       ELSE pc' = "format" /\ UNCHANGED <<result, outcome>>
    /\ UNCHANGED <<fs, tool, args, filepath, cmd, proc, target, spawned, launches,
                   race, prev>>

\* a sort that is not stable: entries of equal mtime come out in any order
ListSortUnstable == \E sorted \in DescendingOrders(screenshots, fs) : ListSortWith(sorted)

\* sorted(SCREENSHOT_DIR.glob("*.png"), key=..., reverse=True)[:limit]
ListSort == ListSortWith(SortedByMtimeDesc(screenshots, fs))

\* the loop that builds the lines, and the return
ListFormat ==
    /\ pc = "format"
    /\ fsReads' = fsReads + StatCalls(screenshots, fs, 2)
    /\ IF ~AllStat(screenshots, fs)
       THEN ListExcept(FileNotFoundStat)
       ELSE Return(ListingResult([i \in 1..Len(screenshots) |-> Entry(i, screenshots[i], fs)]))
    /\ UNCHANGED <<fs, tool, args, filepath, cmd, proc, target, spawned, screenshots,
                   launches, race, prev>>

(* ------------------------------ call_tool ----------------------------- *)

\* a dispatch whose last branch raises instead of returning
UnknownToolRaises(name) ==
    /\ Raise
    /\ prev' = NoPrev
    /\ UNCHANGED <<fs, filepath, cmd, proc, target, spawned, screenshots, launches,
                   fsReads, race>>

\* else: return [TextContent(text=f"Unknown tool: {name}")]
UnknownTool(name) ==
    /\ Return(UnknownToolResult(name))
    /\ prev' = NoPrev
    /\ UNCHANGED <<fs, filepath, cmd, proc, target, spawned, screenshots, launches,
                   fsReads, race>>

\* the argument sets a caller sends to a tool: the keys its handler reads
ArgsFor(name) ==
    CASE name = "screenshot" ->
            {[filename |-> f, delay |-> d, limit |-> Absent] : f \in FilenameArgs, d \in DelayArgs}
      [] name \in {"screenshot_window", "screenshot_area"} ->
            {[filename |-> f, delay |-> Absent, limit |-> Absent] : f \in FilenameArgs}
      [] name = "list_screenshots" ->
            {[filename |-> Absent, delay |-> Absent, limit |-> l] : l \in LimitArgs}
      [] OTHER -> {NoArgs}

\* call_tool(name, arguments): the dispatch on the tool's name
CallTool(name, a) ==
    /\ pc = "idle"
    /\ tool' = name
    /\ args' = a
    /\ IF name = "screenshot" THEN TakeScreenshot(a)
       ELSE IF name = "screenshot_window" THEN TakeWindowScreenshot(a)
       ELSE IF name = "screenshot_area" THEN TakeAreaScreenshot(a)
       ELSE IF name = "list_screenshots" THEN ListScreenshots(a)
       ELSE UnknownTool(name)

\* the result goes back to the caller and the server waits for the next call;
\* nothing of a call is kept but the files in the directory
Respond ==
    /\ pc = "done"
    /\ pc' = "idle"
    /\ tool' = ""
    /\ args' = NoArgs
    /\ filepath' = <<>>
    /\ cmd' = <<>>
    /\ proc' = NoProc
    /\ target' = NoTarget
    /\ spawned' = "none"
    /\ screenshots' = <<>>
    /\ result' = NoResult
    /\ outcome' = "none"
    /\ launches' = 0
    /\ fsReads' = 0
    /\ race' = NoRace
    /\ prev' = IF tool = "list_screenshots" /\ race = NoRace
               THEN [valid |-> TRUE, limit |-> args.limit, result |-> result]
               ELSE NoPrev
    /\ UNCHANGED fs

(* ------------------------ external processes -------------------------- *)

\* the points at which an external change of the directory is observable:
\* between calls, between the enumeration and the stats of the sort, and
\* between the sort and the stats of the loop
DirectoryWatched == pc \in {"idle", "sort", "format"}

\* what the running listing call has seen of external changes: how many, and
\* whether one of them removed a file it had enumerated
RaceAfter(kind) ==
    IF pc = "idle" THEN NoRace
    ELSE [n |-> race.n + 1, kind |-> IF race.kind = "removed" THEN "removed" ELSE kind]

\* an external process (the capture utility among them) writes a file
EnvWrite(name, m, sz) ==
    /\ DirectoryWatched
    /\ pc = "idle" \/ race.n < MaxRaces
    /\ fs[name] # File(m, sz)
    /\ fs' = [fs EXCEPT ![name] = File(m, sz)]
    /\ race' = RaceAfter("changed")
    /\ prev' = NoPrev
    /\ UNCHANGED <<pc, tool, args, filepath, cmd, proc, target, spawned, screenshots,
                   result, outcome, launches, fsReads>>

\* an external process removes a file; the removal of a file the running
\* listing has enumerated and not yet stat-ed for the last time is the race
EnvRemove(name) ==
    /\ DirectoryWatched
    /\ pc = "idle" \/ race.n < MaxRaces
    /\ fs[name].present
    /\ fs' = [fs EXCEPT ![name] = NoFile]
    /\ race' = RaceAfter(IF \E i \in 1..Len(screenshots) : screenshots[i] = name
                         THEN "removed" ELSE "changed")
    /\ prev' = NoPrev
    /\ UNCHANGED <<pc, tool, args, filepath, cmd, proc, target, spawned, screenshots,
                   result, outcome, launches, fsReads>>

\* the capture tools and the names call_tool does not know
CaptureNext ==
    \/ \E name \in ToolNames \ {"list_screenshots"} : \E a \in ArgsFor(name) : CallTool(name, a)
    \/ UtilityExit
    \/ TakeScreenshotResume
    \/ SpawnedExit
    \/ Respond

\* the listing tool and the external processes that change the directory
ListNext ==
    \/ \E a \in ArgsFor("list_screenshots") : CallTool("list_screenshots", a)
    \/ ListSort
    \/ ListFormat
    \/ Respond
    \/ \E name \in Names : \E m \in MtimesOf(name), sz \in FileSizes : EnvWrite(name, m, sz)
    \/ \E name \in Names : EnvRemove(name)

Next ==
    \/ \E name \in ToolNames : \E a \in ArgsFor(name) : CallTool(name, a)
    \/ UtilityExit
    \/ TakeScreenshotResume
    \/ SpawnedExit
    \/ ListSort
    \/ ListFormat
    \/ Respond
    \/ \E name \in Names : \E m \in MtimesOf(name), sz \in FileSizes : EnvWrite(name, m, sz)
    \/ \E name \in Names : EnvRemove(name)

\* every tool, every external process
Spec == Init /\ [][Next]_vars

\* the capture tools alone: the directory stays as it is
SpecCapture == Init /\ [][CaptureNext]_vars

\* the listing tool alone, with the directory changing under it
SpecList == Init /\ [][ListNext]_vars

(* ------------------------------- claims ------------------------------- *)

CaptureTools == {"screenshot", "screenshot_window", "screenshot_area"}
InteractiveTools == {"screenshot_window", "screenshot_area"}

\* the limit the running listing call uses
Limit == Get(args.limit, IntV(DefaultLimit))

\* the names a result lists, in order
ListedNames(r) == [i \in 1..Len(r.entries) |-> r.entries[i].name]

\* the files of the directory that match the pattern
PngFiles == {n \in Names : fs[n].present /\ MatchesPng(n)}

\* the prefix of the name the tool generates
PrefixOf(t) ==
    CASE t = "screenshot" -> "screenshot_"
      [] t = "screenshot_window" -> "window_"
      [] OTHER -> "area_"

\* the directory, a separator and the name, token for token
Verbatim(name) == SCREENSHOT_DIR \o <<"/">> \o name

\* a handler has resolved the target path and built the command
CommandBuilt == tool \in CaptureTools /\ cmd # <<>>

\* C1: every call dispatched through call_tool that ends, ends by returning a
\* text result; no exception ever leaves a handler.
C1_AlwaysTextResult ==
    /\ outcome # "raised"
    /\ pc = "done" => outcome = "returned" /\ result.kind # "none"

\* a capture whose utility exited 0 and left no file: the stat failure comes
\* back as an error result
C1_Witness ==
    /\ pc = "done"
    /\ tool = "screenshot"
    /\ proc.state = "exited" /\ proc.rc = 0 /\ ~target.exists
    /\ outcome = "returned"
    /\ result = ErrorResult(FileNotFoundStat)

\* C2: when the utility of capture_full exits with a non-zero status, the
\* result is the error result carrying the utility's error-stream text, and
\* never the success result, whether or not a file is at the target path.
C2_NonZeroExitIsError ==
    (pc = "done" /\ tool = "screenshot" /\ proc.state = "exited" /\ proc.rc # 0)
        => /\ result.kind = "capture_failed"
           /\ result.kind \in ErrorKinds
           /\ result.text = proc.stderr
           /\ result.kind # "saved"

\* a non-zero exit with error text and a file at the target path
C2_Witness ==
    /\ pc = "done"
    /\ tool = "screenshot"
    /\ proc.state = "exited" /\ proc.rc # 0 /\ proc.stderr # ""
    /\ target.exists
    /\ result = CaptureFailedResult(proc.stderr)

\* C3 as stated: for every filename supplied, the target path handed to the
\* utility and named in the result is the Screenshot Directory joined with
\* exactly that filename, unaltered; a generated default name is used only
\* when no filename was supplied.
C3_SuppliedNameUnaltered ==
    CommandBuilt =>
        /\ cmd[Len(cmd)] = filepath
        /\ result.kind \in {"saved", "window_ack", "area_ack"} => result.path = filepath
        /\ args.filename.t = "str" => filepath = Verbatim(args.filename.s)
        /\ filepath = Verbatim(DefaultName(PrefixOf(tool))) => args.filename.t = "absent"

\* a name pathlib leaves alone: not empty, relative, no empty component
\* (no leading, trailing or doubled "/") and no "." component
PlainName(s) ==
    /\ s # <<>>
    /\ s[1] # "/"
    /\ s[Len(s)] # "/"
    /\ \A i \in 1..(Len(s) - 1) : ~(s[i] = "/" /\ s[i + 1] = "/")
    /\ \A i \in 1..Len(s) :
          ~(/\ s[i] = "."
            /\ (i = 1 \/ s[i - 1] = "/")
            /\ (i = Len(s) \/ s[i + 1] = "/"))

\* C3 as amended: the path handed to the utility and named in the result is
\* the directory joined with exactly the supplied name when that name is not
\* empty, is relative and has no empty and no "." component; the generated
\* default name is used exactly when the filename is omitted or empty.
C3_PlainNameUnaltered ==
    CommandBuilt =>
        /\ cmd[Len(cmd)] = filepath
        /\ result.kind \in {"saved", "window_ack", "area_ack"} => result.path = filepath
        /\ (args.filename.t = "str" /\ PlainName(args.filename.s))
              => filepath = Verbatim(args.filename.s)
        /\ filepath = Verbatim(DefaultName(PrefixOf(tool)))
              <=> (args.filename.t = "absent" \/ args.filename = StrV(<<>>))

\* a saved capture under a supplied two-token name that begins with "."
C3_Witness ==
    /\ pc = "done"
    /\ tool = "screenshot"
    /\ args.filename = StrV(<<".", "a">>)
    /\ result.kind = "saved"
    /\ result.path = Verbatim(<<".", "a">>)
    /\ cmd[Len(cmd)] = Verbatim(<<".", "a">>)

\* C4: for a non-negative integer limit N and an unchanged directory, the
\* listing has min(N, number of .png files) entries, all of them .png files of
\* the directory, in descending order of modification time, and no file left
\* out is newer than a file listed.
C4_MostRecentFirst ==
    (pc = "done" /\ tool = "list_screenshots" /\ race = NoRace
        /\ Limit.t = "int" /\ Limit.n >= 0)
        => LET names == ListedNames(result)
               n == Len(names)
           IN  /\ result.kind \in {"listing", "none_found"}
               /\ n <= Limit.n
               /\ n = IF Cardinality(PngFiles) < Limit.n
                      THEN Cardinality(PngFiles) ELSE Limit.n
               /\ \A i \in 1..n : names[i] \in PngFiles
               /\ \A i, j \in 1..n : i # j => names[i] # names[j]
               /\ \A i, j \in 1..n : i < j => fs[names[i]].mtime >= fs[names[j]].mtime
               /\ \A x \in PngFiles : \A i \in 1..n :
                     (\A j \in 1..n : names[j] # x) => fs[x].mtime <= fs[names[i]].mtime
               /\ \A i \in 1..n : /\ result.entries[i].index = i
                                  /\ result.entries[i].mtime = fs[names[i]].mtime

\* three files with mtimes f1 < f2 < f3 and limit 2: f3 then f2
C4_Witness ==
    /\ pc = "done"
    /\ tool = "list_screenshots"
    /\ race = NoRace
    /\ args.limit = IntV(2)
    /\ fs[<<"b", ".png">>] = File(1, 2048)
    /\ fs[<<"a", ".png">>] = File(2, 2048)
    /\ fs[<<"c", ".png">>] = File(3, 2048)
    /\ result.kind = "listing"
    /\ ListedNames(result) = << <<"c", ".png">>, <<"a", ".png">> >>

\* C5: list_captures returns "No screenshots found" exactly when no file of
\* the directory matches the extension; with a matching file and any
\* non-negative integer limit, 0 included, the result is the numbered list.
C5_SentinelIffNoMatch ==
    (pc = "done" /\ tool = "list_screenshots" /\ race = NoRace
        /\ Limit.t = "int" /\ Limit.n >= 0)
        => /\ result.kind = "none_found" <=> PngFiles = {}
           /\ PngFiles # {} => result.kind = "listing"

\* C6: when an external process removes a file between the listing's
\* enumeration and its stat of that file, the listing is not aborted: the
\* result is not an error result.
C6_RemovalNotFatal ==
    (pc = "done" /\ tool = "list_screenshots" /\ race.kind = "removed" /\ CanSlice(Limit))
        => result.kind \in {"listing", "none_found"}

C9_UnknownToolResult ==
    (tool # "" /\ tool \notin KnownTools)
        => /\ pc = "done"
           /\ outcome = "returned"
           /\ result = UnknownToolResult(tool)
           /\ launches = 0
           /\ proc.state = "none"
           /\ spawned = "none"
           /\ fsReads = 0

\* an unknown tool called while the directory holds files
C9_Witness ==
    /\ pc = "done"
    /\ tool = "record_screen"
    /\ result = UnknownToolResult("record_screen")
    /\ PngFiles # {}

====
